---- MODULE Spec2Model ----
(***************************************************************************)
(* Model of the search API request-validation subsystem of vivast:        *)
(* the label mappings, the parameter translator, the URL codec, the       *)
(* parameter differ and the interception session of SearchValidatorHelper.*)
(*                                                                         *)
(* JavaScript values are tagged records: Undefined, NaN, Num(n), Str(cs).  *)
(* A JavaScript string that is parsed or serialized is a sequence of       *)
(* one-character strings; UI labels and message texts are TLA+ strings     *)
(* (the arrow character of the mapping messages is written ->).            *)
(* A JavaScript object is a sequence of <<key, value>> pairs in insertion  *)
(* order, as Object.entries and JSON.stringify see it.                     *)
(***************************************************************************)
EXTENDS Integers, Sequences, FiniteSets, TLC

\* ------------------------------------------------------------------ values

Undefined == [t |-> "undefined"]

NaN == [t |-> "NaN"]

Num(n) == [t |-> "number", v |-> n]

Str(cs) == [t |-> "string", v |-> cs]

\* a string[] value
Array(items) == [t |-> "array", v |-> items]

\* a UI label (category, location or keyword text), kept as one text
Label(text) == [t |-> "label", v |-> text]

\* 'a !== b' is the negation of this: NaN is never equal to anything.
StrictEq(a, b) == a = b /\ a # NaN

RECURSIVE Join(_)
\* the characters of a string, as one text
Join(cs) == IF cs = <<>> THEN "" ELSE Head(cs) \o Join(Tail(cs))

Digits == <<"0", "1", "2", "3", "4", "5", "6", "7", "8", "9">>

IsDigit(c) == \E i \in 1..10 : Digits[i] = c

DigitVal(c) == (CHOOSE i \in 1..10 : Digits[i] = c) - 1

RECURSIVE NatToChars(_)
NatToChars(n) == IF n < 10 THEN <<Digits[n + 1]>>
                 ELSE NatToChars(n \div 10) \o <<Digits[(n % 10) + 1]>>

\* String(value) for the values a parameter set holds
ToChars(val) == CASE val.t = "undefined" -> <<"u", "n", "d", "e", "f", "i", "n", "e", "d">>
                  [] val.t = "NaN" -> <<"N", "a", "N">>
                  [] val.t = "number" -> IF val.v < 0 THEN <<"-">> \o NatToChars(-val.v)
                                         ELSE NatToChars(val.v)
                  [] val.t = "string" -> val.v

\* `${value}` inside a template literal
TemplateText(val) == Join(ToChars(val))

\* ----------------------------------------------------------------- objects

RECURSIVE Get(_, _)
\* obj[key]: the value of the property, undefined when there is none
Get(obj, key) == IF obj = <<>> THEN Undefined
                 ELSE IF Head(obj)[1] = key THEN Head(obj)[2]
                 ELSE Get(Tail(obj), key)

HasKey(obj, key) == \E i \in 1..Len(obj) : obj[i][1] = key

\* obj[key] = val: an existing property keeps its place, a new one is appended
Set(obj, key, val) == IF HasKey(obj, key)
                      THEN [i \in 1..Len(obj) |-> IF obj[i][1] = key THEN <<key, val>> ELSE obj[i]]
                      ELSE Append(obj, <<key, val>>)

\* ------------------------------------------------------------------ parsing

IsSpace(c) == c \in {" ", "\t", "\n"}

RECURSIVE SkipSpaces(_)
SkipSpaces(cs) == IF cs # <<>> /\ IsSpace(Head(cs)) THEN SkipSpaces(Tail(cs)) ELSE cs

RECURSIVE DigitPrefix(_)
DigitPrefix(cs) == IF cs # <<>> /\ IsDigit(Head(cs)) THEN <<Head(cs)>> \o DigitPrefix(Tail(cs))
                   ELSE <<>>

RECURSIVE DigitsValue(_, _)
DigitsValue(cs, acc) == IF cs = <<>> THEN acc
                        ELSE DigitsValue(Tail(cs), 10 * acc + DigitVal(Head(cs)))

\* parseInt(string, 10): leading blanks, an optional sign, then the longest
\* run of decimal digits; NaN when there is no digit.
parseInt(cs) ==
  LET s == SkipSpaces(cs)
      neg == s # <<>> /\ Head(s) = "-"
      body == IF s # <<>> /\ Head(s) \in {"-", "+"} THEN Tail(s) ELSE s
      ds == DigitPrefix(body)
  IN IF ds = <<>> THEN NaN
     ELSE Num(IF neg THEN -DigitsValue(ds, 0) ELSE DigitsValue(ds, 0))

SEARCH_API_URL == "https://search.vivastreet.co.uk/ajax/regions_tree.php"

\* the characters the query serializer escapes, with their escapes (of the
\* characters used here; letters, digits and "_" are written as they are)
FormEscapes == <<<<" ", <<"+">>>>, <<"+", <<"%", "2", "B">>>>, <<"&", <<"%", "2", "6">>>>,
                 <<"=", <<"%", "3", "D">>>>, <<"%", <<"%", "2", "5">>>>>>

RECURSIVE FormEncode(_)
\* URLSearchParams.toString() for one name or value
FormEncode(cs) ==
  IF cs = <<>> THEN <<>>
  ELSE (IF \E i \in 1..Len(FormEscapes) : FormEscapes[i][1] = Head(cs)
        THEN FormEscapes[CHOOSE i \in 1..Len(FormEscapes) : FormEscapes[i][1] = Head(cs)][2]
        ELSE <<Head(cs)>>)
       \o FormEncode(Tail(cs))

RECURSIVE FormDecode(_)
\* what URL.searchParams makes of one name or value of the query string
FormDecode(cs) ==
  IF cs = <<>> THEN <<>>
  ELSE IF Head(cs) = "+" THEN <<" ">> \o FormDecode(Tail(cs))
  ELSE IF /\ Head(cs) = "%"
          /\ Len(cs) >= 3
          /\ \E i \in 2..Len(FormEscapes) : FormEscapes[i][2] = SubSeq(cs, 1, 3)
       THEN <<FormEscapes[CHOOSE i \in 2..Len(FormEscapes) :
                            FormEscapes[i][2] = SubSeq(cs, 1, 3)][1]>>
            \o FormDecode(SubSeq(cs, 4, Len(cs)))
  ELSE <<Head(cs)>> \o FormDecode(Tail(cs))

RECURSIVE parseQueryPairs(_, _)
parseQueryPairs(query, params) ==
  IF query = <<>> THEN params
  ELSE parseQueryPairs(Tail(query),
                       Set(params, Head(query)[1], Str(FormDecode(Head(query)[2]))))

\* A URL is [base, query]: the text before '?' and the query pairs in order,
\* each value as written in the query string.  A repeated key keeps its last
\* value.
parseQueryParams(url) == parseQueryPairs(url.query, <<>>)

\* a query value is truthy when it is there and is not the empty string
Truthy(val) == val.t = "string" /\ val.v # <<>>

\* variant: the parsed number, not the text, decides whether a field is set
toSearchAPIParamsDropsZero(params) ==
  LET int(key) == IF Truthy(Get(params, key)) THEN parseInt(Get(params, key).v) ELSE Undefined
      set(r, key, val) == IF val \in {Undefined, NaN, Num(0)} THEN r ELSE Set(r, key, val)
      r1 == set(<<>>, "geo_id", int("geo_id"))
      r2 == set(r1, "cat_id", int("cat_id"))
      r3 == IF Truthy(Get(params, "meta_code"))
            THEN Set(r2, "meta_code", Get(params, "meta_code")) ELSE r2
      r4 == set(r3, "summary", int("summary"))
      r5 == IF Truthy(Get(params, "country"))
            THEN Set(r4, "country", Get(params, "country")) ELSE r4
      r6 == IF Truthy(Get(params, "country_id"))
            THEN Set(r5, "country_id", Get(params, "country_id")) ELSE r5
  IN r6

toSearchAPIParams(params) ==
  LET r1 == IF Truthy(Get(params, "geo_id"))
            THEN Set(<<>>, "geo_id", parseInt(Get(params, "geo_id").v)) ELSE <<>>
      r2 == IF Truthy(Get(params, "cat_id"))
            THEN Set(r1, "cat_id", parseInt(Get(params, "cat_id").v)) ELSE r1
      r3 == IF Truthy(Get(params, "meta_code"))
            THEN Set(r2, "meta_code", Get(params, "meta_code")) ELSE r2
      r4 == IF Truthy(Get(params, "summary"))
            THEN Set(r3, "summary", parseInt(Get(params, "summary").v)) ELSE r3
      r5 == IF Truthy(Get(params, "country"))
            THEN Set(r4, "country", Get(params, "country")) ELSE r4
      r6 == IF Truthy(Get(params, "country_id"))
            THEN Set(r5, "country_id", Get(params, "country_id")) ELSE r5
  IN r6

\* ----------------------------------------------------------------- building

DEFAULT_API_PARAMS == <<<<"summary", Num(1)>>, <<"country", Str(<<"G", "B">>)>>,
                        <<"country_id", Str(<<"G", "B">>)>>>>

RECURSIVE Spread(_, _)
\* { ...a, ...b }: every own property of b is assigned, an undefined one too
Spread(a, b) == IF b = <<>> THEN a
                ELSE Spread(Set(a, Head(b)[1], Head(b)[2]), Tail(b))

RECURSIVE appendEntries(_)
\* the forEach over Object.entries(mergedParams)
appendEntries(entries) ==
  IF entries = <<>> THEN <<>>
  ELSE (IF Head(entries)[2] # Undefined
        THEN <<<<Head(entries)[1], FormEncode(ToChars(Head(entries)[2]))>>>>
        ELSE <<>>)
       \o appendEntries(Tail(entries))

\* variant: the defaults are not merged in
buildSearchAPIUrlNoDefaults(params) ==
  [base |-> SEARCH_API_URL, query |-> appendEntries(params)]

buildSearchAPIUrl(params) ==
  LET mergedParams == Spread(DEFAULT_API_PARAMS, params)
  IN [base |-> SEARCH_API_URL, query |-> appendEntries(mergedParams)]

RECURSIVE QueryText(_)
QueryText(query) ==
  IF query = <<>> THEN ""
  ELSE Head(query)[1] \o "=" \o Join(Head(query)[2])
       \o (IF Len(query) > 1 THEN "&" ELSE "") \o QueryText(Tail(query))

\* the URL as the string buildSearchAPIUrl returns
UrlText(url) == url.base \o "?" \o QueryText(url.query)

\* ----------------------------------------------------------------- mappings

appliances_furniture == <<"a", "p", "p", "l", "i", "a", "n", "c", "e", "s", "_",
                          "f", "u", "r", "n", "i", "t", "u", "r", "e">>

adult_services == <<"a", "d", "u", "l", "t", "_", "s", "e", "r", "v", "i", "c", "e", "s">>

\* variant: the two labels carry each other's meta code
CATEGORY_MAPPINGS_Swapped ==
  [label \in {"Home Appliances", "Escorts and Massages"} |->
     IF label = "Home Appliances"
     THEN [label |-> "Home Appliances", cat_id |-> 93, meta_code |-> adult_services]
     ELSE [label |-> "Escorts and Massages", cat_id |-> 88, meta_code |-> appliances_furniture]]

CATEGORY_MAPPINGS ==
  [label \in {"Home Appliances", "Escorts and Massages"} |->
     IF label = "Home Appliances"
     THEN [label |-> "Home Appliances", cat_id |-> 93, meta_code |-> appliances_furniture]
     ELSE [label |-> "Escorts and Massages", cat_id |-> 88, meta_code |-> adult_services]]

LOCATION_MAPPINGS ==
  [label \in {"London", ""} |->
     IF label = "London" THEN [label |-> "London", geo_id |-> 7]
     ELSE [label |-> "", geo_id |-> 0]]

NoMapping == [label |-> Undefined]

\* The registries are object literals: a label that names a property of
\* Object.prototype finds that property, which is truthy and has none of the
\* fields of a mapping.
ObjectPrototypeKeys == {"constructor", "toString", "valueOf", "hasOwnProperty", "__proto__"}

InheritedProperty == [inherited |-> TRUE]

IsInherited(mapping) == "inherited" \in DOMAIN mapping

getCategoryMapping(categoryLabel) ==
  IF categoryLabel \in DOMAIN CATEGORY_MAPPINGS THEN CATEGORY_MAPPINGS[categoryLabel]
  ELSE IF categoryLabel \in ObjectPrototypeKeys THEN InheritedProperty
  ELSE NoMapping

getLocationMapping(locationLabel) ==
  IF locationLabel \in DOMAIN LOCATION_MAPPINGS THEN LOCATION_MAPPINGS[locationLabel]
  ELSE IF locationLabel \in ObjectPrototypeKeys THEN InheritedProperty
  ELSE NoMapping

\* -------------------------------------------------------------- translation

\* new Error(message)
Error(message) == [name |-> "Error", message |-> message]

CategoryNotFoundMessage(label) ==
  "Category mapping not found for: \"" \o label \o "\".\n"
  \o "Add mapping to api/mappings/category-mappings.ts\n\n"
  \o "To find the mapping:\n"
  \o "1. Open browser DevTools -> Network tab\n"
  \o "2. Select \"" \o label \o "\" in UI\n"
  \o "3. Observe request to regions_tree.php\n"
  \o "4. Record cat_id and meta_code parameters"

LocationNotFoundMessage(label) ==
  "Location mapping not found for: \"" \o label \o "\".\n"
  \o "Add mapping to api/mappings/location-mappings.ts\n\n"
  \o "To find the mapping:\n"
  \o "1. Open browser DevTools -> Network tab\n"
  \o "2. Select \"" \o label \o "\" in UI\n"
  \o "3. Observe request to regions_tree.php\n"
  \o "4. Record geo_id parameter"

\* variant: the location is tested like the category, by truthiness
mapToAPIParamsTruthyLocation(params) ==
  LET hasCategory == params.category # Undefined /\ params.category # Label("")
      categoryMapping == IF hasCategory THEN getCategoryMapping(params.category.v) ELSE NoMapping
      p1 == IF hasCategory /\ categoryMapping # NoMapping /\ ~IsInherited(categoryMapping)
            THEN Set(Set(<<>>, "cat_id", Num(categoryMapping.cat_id)),
                     "meta_code", Str(categoryMapping.meta_code))
            ELSE <<>>
      hasLocation == params.location # Undefined /\ params.location # Label("")
      locationMapping == IF hasLocation THEN getLocationMapping(params.location.v) ELSE NoMapping
      p2 == IF hasLocation /\ locationMapping # NoMapping /\ ~IsInherited(locationMapping)
            THEN Set(p1, "geo_id", Num(locationMapping.geo_id))
            ELSE p1
  IN IF hasCategory /\ categoryMapping = NoMapping
     THEN [threw |-> TRUE, error |-> Error(CategoryNotFoundMessage(params.category.v))]
     ELSE IF hasLocation /\ locationMapping = NoMapping
     THEN [threw |-> TRUE, error |-> Error(LocationNotFoundMessage(params.location.v))]
     ELSE [threw |-> FALSE, value |-> p2]

\* variant: a keyword of the request is passed on as a parameter
mapToAPIParamsWithKeyword(params) ==
  LET hasCategory == params.category # Undefined /\ params.category # Label("")
      categoryMapping == IF hasCategory THEN getCategoryMapping(params.category.v) ELSE NoMapping
      p1 == IF ~hasCategory \/ categoryMapping = NoMapping THEN <<>>
            ELSE IF IsInherited(categoryMapping)
            THEN Set(Set(<<>>, "cat_id", Undefined), "meta_code", Undefined)
            ELSE Set(Set(<<>>, "cat_id", Num(categoryMapping.cat_id)),
                     "meta_code", Str(categoryMapping.meta_code))
      hasLocation == params.location # Undefined
      locationMapping == IF hasLocation THEN getLocationMapping(params.location.v) ELSE NoMapping
      p2 == IF ~hasLocation \/ locationMapping = NoMapping THEN p1
            ELSE IF IsInherited(locationMapping) THEN Set(p1, "geo_id", Undefined)
            ELSE Set(p1, "geo_id", Num(locationMapping.geo_id))
  IN IF hasCategory /\ categoryMapping = NoMapping
     THEN [threw |-> TRUE, error |-> Error(CategoryNotFoundMessage(params.category.v))]
     ELSE IF hasLocation /\ locationMapping = NoMapping
     THEN [threw |-> TRUE, error |-> Error(LocationNotFoundMessage(params.location.v))]
     ELSE [threw |-> FALSE,
           value |-> IF params.keyword \in {Undefined, Label("")} THEN p2
                     ELSE Set(p2, "keyword", Str(<<params.keyword.v>>))]

\* variant: the translation fills in the defaults of the request builder
mapToAPIParamsWithDefaults(params) ==
  LET hasCategory == params.category # Undefined /\ params.category # Label("")
      categoryMapping == IF hasCategory THEN getCategoryMapping(params.category.v) ELSE NoMapping
      p1 == IF ~hasCategory \/ categoryMapping = NoMapping THEN <<>>
            ELSE IF IsInherited(categoryMapping)
            THEN Set(Set(<<>>, "cat_id", Undefined), "meta_code", Undefined)
            ELSE Set(Set(<<>>, "cat_id", Num(categoryMapping.cat_id)),
                     "meta_code", Str(categoryMapping.meta_code))
      hasLocation == params.location # Undefined
      locationMapping == IF hasLocation THEN getLocationMapping(params.location.v) ELSE NoMapping
      p2 == IF ~hasLocation \/ locationMapping = NoMapping THEN p1
            ELSE IF IsInherited(locationMapping) THEN Set(p1, "geo_id", Undefined)
            ELSE Set(p1, "geo_id", Num(locationMapping.geo_id))
  IN IF hasCategory /\ categoryMapping = NoMapping
     THEN [threw |-> TRUE, error |-> Error(CategoryNotFoundMessage(params.category.v))]
     ELSE IF hasLocation /\ locationMapping = NoMapping
     THEN [threw |-> TRUE, error |-> Error(LocationNotFoundMessage(params.location.v))]
     ELSE [threw |-> FALSE, value |-> Spread(p2, DEFAULT_API_PARAMS)]

\* A UI request is [category, location, keyword], each a Label or Undefined.
\* The result is [threw |-> FALSE, value |-> apiParams] or
\* [threw |-> TRUE, error |-> Error(...)].
mapToAPIParams(params) ==
  LET hasCategory == params.category # Undefined /\ params.category # Label("")
      categoryMapping == IF hasCategory THEN getCategoryMapping(params.category.v) ELSE NoMapping
      p1 == IF ~hasCategory \/ categoryMapping = NoMapping THEN <<>>
            ELSE IF IsInherited(categoryMapping)
            THEN Set(Set(<<>>, "cat_id", Undefined), "meta_code", Undefined)
            ELSE Set(Set(<<>>, "cat_id", Num(categoryMapping.cat_id)),
                     "meta_code", Str(categoryMapping.meta_code))
      hasLocation == params.location # Undefined
      locationMapping == IF hasLocation THEN getLocationMapping(params.location.v) ELSE NoMapping
      p2 == IF ~hasLocation \/ locationMapping = NoMapping THEN p1
            ELSE IF IsInherited(locationMapping) THEN Set(p1, "geo_id", Undefined)
            ELSE Set(p1, "geo_id", Num(locationMapping.geo_id))
  IN IF hasCategory /\ categoryMapping = NoMapping
     THEN [threw |-> TRUE, error |-> Error(CategoryNotFoundMessage(params.category.v))]
     ELSE IF hasLocation /\ locationMapping = NoMapping
     THEN [threw |-> TRUE, error |-> Error(LocationNotFoundMessage(params.location.v))]
     ELSE [threw |-> FALSE, value |-> p2]

\* SearchAPIHelper.getAPIParams: the translation, behind one await
getAPIParams(params) == mapToAPIParams(params)

\* --------------------------------------------------------------- comparison

paramsToCompare == <<"cat_id", "geo_id", "meta_code">>

\* variant: the two values change places in the text
DifferenceEntrySwapped(key, expectedValue, actualValue) ==
  key \o ": expected " \o TemplateText(actualValue) \o ", got " \o TemplateText(expectedValue)

DifferenceEntry(key, expectedValue, actualValue) ==
  key \o ": expected " \o TemplateText(expectedValue) \o ", got " \o TemplateText(actualValue)

RECURSIVE compareLoop(_, _, _, _)
\* the for-loop of compareParams from the keys still to visit
compareLoop(keys, actual, expected, acc) ==
  IF keys = <<>> THEN acc
  ELSE LET key == Head(keys)
           actualValue == Get(actual, key)
           expectedValue == Get(expected, key)
           differs == expectedValue # Undefined /\ ~StrictEq(actualValue, expectedValue)
       IN compareLoop(Tail(keys), actual, expected,
                      IF differs
                      THEN [matched |-> FALSE,
                            differences |-> Append(acc.differences,
                                  DifferenceEntry(key, expectedValue, actualValue))]
                      ELSE acc)

RECURSIVE compareLoopAllFields(_, _, _, _)
compareLoopAllFields(keys, actual, expected, acc) ==
  IF keys = <<>> THEN acc
  ELSE LET key == Head(keys)
           actualValue == Get(actual, key)
           expectedValue == Get(expected, key)
           differs == actualValue # expectedValue
       IN compareLoopAllFields(Tail(keys), actual, expected,
                      IF differs
                      THEN [matched |-> FALSE,
                            differences |-> Append(acc.differences,
                                  DifferenceEntry(key, expectedValue, actualValue))]
                      ELSE acc)

\* variant: a field the expected set leaves undefined is compared as well
compareParamsAllFields(actual, expected) ==
  LET r == compareLoopAllFields(paramsToCompare, actual, expected,
                                [matched |-> TRUE, differences |-> <<>>])
  IN [matched |-> r.matched,
      actualParams |-> actual,
      expectedParams |-> expected,
      differences |-> IF Len(r.differences) > 0 THEN Array(r.differences) ELSE Undefined]

\* variant: differences is returned as collected, an empty array on a match
compareParamsKeepsEmpty(actual, expected) ==
  LET r == compareLoop(paramsToCompare, actual, expected,
                       [matched |-> TRUE, differences |-> <<>>])
  IN [matched |-> r.matched,
      actualParams |-> actual,
      expectedParams |-> expected,
      differences |-> Array(r.differences)]

\* differences is an Array of texts, or Undefined
compareParams(actual, expected) ==
  LET r == compareLoop(paramsToCompare, actual, expected,
                       [matched |-> TRUE, differences |-> <<>>])
  IN [matched |-> r.matched,
      actualParams |-> actual,
      expectedParams |-> expected,
      differences |-> IF Len(r.differences) > 0 THEN Array(r.differences) ELSE Undefined]

\* ----------------------------------------------------------- error messages

RECURSIVE JoinWith(_, _)
\* Array.prototype.join over texts
JoinWith(texts, sep) == IF texts = <<>> THEN ""
                        ELSE IF Len(texts) = 1 THEN Head(texts)
                        ELSE Head(texts) \o sep \o JoinWith(Tail(texts), sep)

JSONValue(val) == CASE val.t = "number" -> TemplateText(val)
                    [] val.t = "NaN" -> "null"
                    [] val.t = "string" -> "\"" \o Join(val.v) \o "\""

RECURSIVE JSONMembers(_)
JSONMembers(obj) ==
  IF obj = <<>> THEN <<>>
  ELSE IF Head(obj)[2] = Undefined THEN JSONMembers(Tail(obj))
  ELSE <<"\"" \o Head(obj)[1] \o "\":" \o JSONValue(Head(obj)[2])>> \o JSONMembers(Tail(obj))

\* JSON.stringify of a parameter set
JSONstringify(obj) == "{" \o JoinWith(JSONMembers(obj), ",") \o "}"

NoInterceptedRequestMessage ==
  "No search API request was intercepted. "
  \o "Make sure startInterception() was called before the UI action."

ResponseMismatchHead == "API request parameters do not match expected values:\n"

InterceptedMismatchHead == "Intercepted API request parameters do not match expected values:\n"

\* the text thrown by both validation methods when validation.matched is false
MismatchMessage(head, validation) ==
  LET joined == IF validation.differences = Undefined THEN ""
                ELSE JoinWith(validation.differences.v, "\n  - ")
      differences == IF joined = "" THEN "Unknown differences" ELSE joined
  IN head
     \o "  - " \o differences \o "\n\n"
     \o "Actual params: " \o JSONstringify(validation.actualParams) \o "\n"
     \o "Expected params: " \o JSONstringify(validation.expectedParams)

\* expect(response).toBeOK() failed
ResponseNotOKMessage == "expect(response).toBeOK() failed"

\* APIResponse.ok(): status 0 or 200..299
ResponseOK(response) == response.status = 0 \/ (response.status >= 200 /\ response.status <= 299)

\* -------------------------------------------------------------------- state

VARIABLES
  env,                 \* what the test and the page under test may do: the validators,
                       \* the request URLs, the expected parameters and the responses
  routes,              \* page._routes for the pattern `${SEARCH_API_URL}*`: the
                       \* validator owning each handler, newest first
  interceptedRequest,  \* per validator: the URL of the stored Request, or Undefined
  call,                \* the method call in progress with its locals, or NoCall
  ret,                 \* the outcome of the call that finished in the last step, or NoRet
  routed,              \* what happened to the request issued in the last step, or NoRouted
  observed             \* per validator: the last request its hook handled since the
                       \* slot was last cleared by startInterception or stopInterception,
                       \* and whether a startInterception of the validator was in progress

vars == <<env, routes, interceptedRequest, call, ret, routed, observed>>

\* validator instances created on one page
Validators == {"v1", "v2"}

\* bound on the number of handlers registered at once
MaxRoutes == 2

NoCall == [op |-> "none"]

NoRet == [op |-> "none"]

NoRouted == [url |-> Undefined]

NoObserved == [url |-> Undefined, starting |-> FALSE]

\* ------------------------------------------------------------------- inputs

Url(base, query) == [base |-> base, query |-> query]

GB == <<"G", "B">>

\* the query of a UI search: geo_id, cat_id, meta_code, summary, country and
\* country_id texts in this order (<<>> = the parameter is not sent)
UiQuery(geo, cat, meta, summary, country, country_id) ==
  LET pair(key, text) == IF text = <<>> THEN <<>> ELSE <<<<key, text>>>>
  IN pair("geo_id", geo) \o pair("cat_id", cat) \o pair("meta_code", meta)
     \o pair("summary", summary) \o pair("country", country)
     \o pair("country_id", country_id)

SearchUrl(geo, cat, meta) == Url(SEARCH_API_URL, UiQuery(geo, cat, meta, <<"1">>, GB, GB))

\* the requests the page under test issues to the search endpoint
SearchUrls == {SearchUrl(<<"7">>, <<"8", "8">>, adult_services),
               SearchUrl(<<"0">>, <<"8", "8">>, adult_services),
               SearchUrl(<<>>, <<"9", "3">>, appliances_furniture)}

\* a request the hook's pattern does not match
OtherUrl == Url("https://www.vivastreet.co.uk/ajax/other.php", <<<<"geo_id", <<"7">>>>>>)

RequestUrls == SearchUrls \cup {OtherUrl}

\* the expected parameters a test passes to the validation methods
ExpectedInputs == {[category |-> c, location |-> l, keyword |-> Undefined] :
                     c \in {Undefined, Label("Escorts and Massages"),
                            Label("Nonexistent Category")},
                     l \in {Undefined, Label("London"), Label("Paris")}}

Statuses == {200, 404}

\* the parameter sets a test builds URLs from while a session is going on
BuildInputs ==
  {<<>>,
   <<<<"geo_id", Num(7)>>, <<"cat_id", Num(88)>>>>,
   <<<<"cat_id", Num(88)>>, <<"geo_id", Num(7)>>, <<"summary", Num(0)>>>>}

ResponsesFor(urls) == {[status |-> s, url |-> u] : s \in Statuses, u \in urls}

\* ------------------------------------------------------------------ session

\* page.route / page.unroute match a request against the glob `${SEARCH_API_URL}*`
Matches(url) == url.base = SEARCH_API_URL

HooksOf(v) == Cardinality({i \in 1..Len(routes) : routes[i] = v})

\* the three states of the spec's state machine, read off the fields
Idle(v) == HooksOf(v) = 0 /\ interceptedRequest[v] = Undefined

Armed(v) == HooksOf(v) > 0 /\ interceptedRequest[v] = Undefined

Captured(v) == interceptedRequest[v] # Undefined

\* the session of v as a call finds it (kept with the call for its outcome)
SessionOf(v) == [hooks |-> HooksOf(v), captured |-> interceptedRequest[v]]

\* two validators on one page, each method called with each input
Init ==
  /\ env = [validators |-> Validators, urls |-> RequestUrls, expected |-> ExpectedInputs,
            responses |-> ResponsesFor({SearchUrl(<<>>, <<"9", "3">>, appliances_furniture)}),
            params |-> BuildInputs, maxRoutes |-> MaxRoutes]
  /\ routes = <<>>
  /\ interceptedRequest = [v \in Validators |-> Undefined]
  /\ call = NoCall
  /\ ret = NoRet
  /\ routed = NoRouted
  /\ observed = [v \in Validators |-> NoObserved]

\* variant: every handler registered for the pattern runs
HandlersRunAll(rs) == rs

\* the handlers that run for one matching request: the newest handler runs and
\* ends in route.continue(), which handles the route, so no older handler runs
HandlersRun(rs) == IF rs = <<>> THEN <<>> ELSE <<Head(rs)>>

\* variant: a handler stores a request only while its slot is empty
RequestKeepsFirst(url) ==
  LET run == IF Matches(url) THEN HandlersRun(routes) ELSE <<>>
      owners == {run[i] : i \in 1..Len(run)}
  IN /\ interceptedRequest' = [v \in Validators |->
                                 IF v \in owners /\ interceptedRequest[v] = Undefined
                                 THEN url ELSE interceptedRequest[v]]
     /\ routed' = [url |-> url,
                   handlers |-> run,
                   previous |-> [i \in 1..Len(run) |-> interceptedRequest[run[i]]],
                   continued |-> [i \in 1..Len(run) |-> url],
                   aborted |-> FALSE,
                   fulfilled |-> FALSE]
     /\ ret' = NoRet
     /\ observed' = [v \in Validators |->
                       IF v \in owners
                       THEN [url |-> url,
                             starting |-> call.op = "startInterception" /\ call.self = v]
                       ELSE observed[v]]
     /\ UNCHANGED <<env, routes, call>>

\* The browser issues a request.  Each handler that runs stores the request
\* and continues it without overrides.
Request(url) ==
  LET run == IF Matches(url) THEN HandlersRun(routes) ELSE <<>>
      owners == {run[i] : i \in 1..Len(run)}
  IN /\ interceptedRequest' = [v \in Validators |->
                                 IF v \in owners THEN url ELSE interceptedRequest[v]]
     /\ routed' = [url |-> url,
                   handlers |-> run,
                   previous |-> [i \in 1..Len(run) |-> interceptedRequest[run[i]]],
                   continued |-> [i \in 1..Len(run) |-> url],
                   aborted |-> FALSE,
                   fulfilled |-> FALSE]
     /\ ret' = NoRet
     /\ observed' = [v \in Validators |->
                       IF v \in owners
                       THEN [url |-> url,
                             starting |-> call.op = "startInterception" /\ call.self = v]
                       ELSE observed[v]]
     /\ UNCHANGED <<env, routes, call>>

\* startInterception, up to the await of page.route
StartInterception(v) ==
  /\ call = NoCall
  /\ Len(routes) < env.maxRoutes
  /\ call' = [op |-> "startInterception", self |-> v, pc |-> "route",
              before |-> SessionOf(v)]
  /\ interceptedRequest' = [interceptedRequest EXCEPT ![v] = Undefined]
  /\ ret' = NoRet
  /\ routed' = NoRouted
  /\ observed' = [observed EXCEPT ![v] = NoObserved]
  /\ UNCHANGED <<env, routes>>

\* page.route registers the handler and startInterception returns
StartRoute ==
  /\ call.op = "startInterception"
  /\ routes' = <<call.self>> \o routes
  /\ call' = NoCall
  /\ ret' = [op |-> "startInterception", self |-> call.self, threw |-> FALSE,
             error |-> Undefined, before |-> call.before]
  /\ routed' = NoRouted
  /\ UNCHANGED <<env, observed, interceptedRequest>>

\* variant: a URL built while a request is captured repeats the query of
\* that request
BuildUrlKeepsQuery(params) ==
  /\ call = NoCall
  /\ LET kept == IF \E v \in Validators : interceptedRequest[v] # Undefined
                 THEN (CHOOSE u \in {interceptedRequest[v] : v \in Validators} :
                         u # Undefined).query
                 ELSE <<>>
         url == [buildSearchAPIUrl(params) EXCEPT !.query = @ \o kept]
     IN ret' = [op |-> "buildSearchAPIUrl", params |-> params, url |-> url,
                text |-> UrlText(url)]
  /\ routed' = NoRouted
  /\ UNCHANGED <<env, observed, routes, interceptedRequest, call>>

\* buildSearchAPIUrl(params), called by a test between two operations
BuildUrl(params) ==
  /\ call = NoCall
  /\ LET url == buildSearchAPIUrl(params)
     IN ret' = [op |-> "buildSearchAPIUrl", params |-> params, url |-> url,
                text |-> UrlText(url)]
  /\ routed' = NoRouted
  /\ UNCHANGED <<env, observed, routes, interceptedRequest, call>>

\* the outcome of a validation call
Outcome(op, v, before, expectedParams, requestUrl, response, threw, error, validation) ==
  [op |-> op, self |-> v, before |-> before, threw |-> threw, error |-> error,
   expectedParams |-> expectedParams, requestUrl |-> requestUrl, response |-> response,
   validation |-> validation]

\* variant: the expected labels are translated before the slot is looked at
ValidateTranslatesFirst(v, expectedParams) ==
  /\ call = NoCall
  /\ IF mapToAPIParams(expectedParams).threw \/ interceptedRequest[v] = Undefined
     THEN /\ ret' = Outcome("validateInterceptedRequest", v, SessionOf(v), expectedParams,
                            interceptedRequest[v], Undefined, TRUE,
                            IF mapToAPIParams(expectedParams).threw
                            THEN mapToAPIParams(expectedParams).error
                            ELSE Error(NoInterceptedRequestMessage), Undefined)
          /\ call' = NoCall
     ELSE /\ call' = [op |-> "validateInterceptedRequest", self |-> v, pc |-> "getAPIParams",
                      before |-> SessionOf(v), expectedParams |-> expectedParams,
                      requestUrl |-> interceptedRequest[v], response |-> Undefined,
                      validation |-> Undefined]
          /\ ret' = NoRet
  /\ routed' = NoRouted
  /\ UNCHANGED <<env, observed, routes, interceptedRequest>>

\* variant: the call that finds no request ends the session
ValidateStopsOnNoRequest(v, expectedParams) ==
  /\ call = NoCall
  /\ IF interceptedRequest[v] = Undefined
     THEN /\ ret' = Outcome("validateInterceptedRequest", v, SessionOf(v), expectedParams, Undefined,
                            Undefined, TRUE, Error(NoInterceptedRequestMessage), Undefined)
          /\ call' = NoCall
          /\ routes' = <<>>
     ELSE /\ call' = [op |-> "validateInterceptedRequest", self |-> v, pc |-> "getAPIParams",
                      before |-> SessionOf(v), expectedParams |-> expectedParams,
                      requestUrl |-> interceptedRequest[v], response |-> Undefined,
                      validation |-> Undefined]
          /\ ret' = NoRet
          /\ routes' = routes
  /\ routed' = NoRouted
  /\ UNCHANGED <<env, observed, interceptedRequest>>

\* variant: with an empty slot the call waits for a request to be captured
ValidateWaitsForRequest(v, expectedParams) ==
  /\ call = NoCall
  /\ call' = [op |-> "validateInterceptedRequest", self |-> v,
              pc |-> IF interceptedRequest[v] = Undefined THEN "wait" ELSE "getAPIParams",
              before |-> SessionOf(v), expectedParams |-> expectedParams,
              requestUrl |-> interceptedRequest[v], response |-> Undefined,
              validation |-> Undefined]
  /\ ret' = NoRet
  /\ routed' = NoRouted
  /\ UNCHANGED <<env, observed, routes, interceptedRequest>>

\* validateInterceptedRequest, up to the await of getAPIParams
ValidateInterceptedRequest(v, expectedParams) ==
  /\ call = NoCall
  /\ IF interceptedRequest[v] = Undefined
     THEN /\ ret' = Outcome("validateInterceptedRequest", v, SessionOf(v), expectedParams, Undefined,
                            Undefined, TRUE, Error(NoInterceptedRequestMessage), Undefined)
          /\ call' = NoCall
     ELSE /\ call' = [op |-> "validateInterceptedRequest", self |-> v, pc |-> "getAPIParams",
                      before |-> SessionOf(v), expectedParams |-> expectedParams,
                      requestUrl |-> interceptedRequest[v], response |-> Undefined,
                      validation |-> Undefined]
          /\ ret' = NoRet
  /\ routed' = NoRouted
  /\ UNCHANGED <<env, observed, routes, interceptedRequest>>

\* variant: the status of the response is not looked at
ValidateResponseAnyStatus(v, response, expectedParams) ==
  /\ call = NoCall
  /\ call' = [op |-> "validateResponse", self |-> v, pc |-> "getAPIParams",
              before |-> SessionOf(v), expectedParams |-> expectedParams,
              requestUrl |-> response.url, response |-> response,
              validation |-> Undefined]
  /\ ret' = NoRet
  /\ routed' = NoRouted
  /\ UNCHANGED <<env, observed, routes, interceptedRequest>>

\* variant: the call empties the slot of its validator
ValidateResponseClearsRequest(v, response, expectedParams) ==
  /\ call = NoCall
  /\ IF ~ResponseOK(response)
     THEN /\ ret' = Outcome("validateResponse", v, SessionOf(v), expectedParams, Undefined, response,
                            TRUE, Error(ResponseNotOKMessage), Undefined)
          /\ call' = NoCall
     ELSE /\ call' = [op |-> "validateResponse", self |-> v, pc |-> "getAPIParams",
                      before |-> SessionOf(v), expectedParams |-> expectedParams,
                      requestUrl |-> response.url, response |-> response,
                      validation |-> Undefined]
          /\ ret' = NoRet
  /\ routed' = NoRouted
  /\ interceptedRequest' = [interceptedRequest EXCEPT ![v] = Undefined]
  /\ UNCHANGED <<env, observed, routes>>

\* validateResponse, up to the await of getAPIParams
ValidateResponse(v, response, expectedParams) ==
  /\ call = NoCall
  /\ IF ~ResponseOK(response)
     THEN /\ ret' = Outcome("validateResponse", v, SessionOf(v), expectedParams, Undefined, response,
                            TRUE, Error(ResponseNotOKMessage), Undefined)
          /\ call' = NoCall
     ELSE /\ call' = [op |-> "validateResponse", self |-> v, pc |-> "getAPIParams",
                      before |-> SessionOf(v), expectedParams |-> expectedParams,
                      requestUrl |-> response.url, response |-> response,
                      validation |-> Undefined]
          /\ ret' = NoRet
  /\ routed' = NoRouted
  /\ UNCHANGED <<env, observed, routes, interceptedRequest>>

\* variant: expected labels without a mapping are left out of the comparison
ValidateCompareSkipsMissing ==
  /\ call.op \in {"validateInterceptedRequest", "validateResponse"}
  /\ call.pc = "getAPIParams"
  /\ LET actualParams == toSearchAPIParams(parseQueryParams(call.requestUrl))
         translated == getAPIParams(call.expectedParams)
         expectedAPIParams == IF translated.threw THEN [threw |-> FALSE, value |-> <<>>]
                              ELSE translated
         validation == compareParams(actualParams, expectedAPIParams.value)
         head == IF call.op = "validateResponse" THEN ResponseMismatchHead
                 ELSE InterceptedMismatchHead
         done(threw, error, v) == Outcome(call.op, call.self, call.before, call.expectedParams,
                                          call.requestUrl, call.response, threw, error, v)
     IN IF expectedAPIParams.threw
        THEN /\ ret' = done(TRUE, expectedAPIParams.error, Undefined)
             /\ call' = NoCall
        ELSE IF ~validation.matched
        THEN /\ ret' = done(TRUE, Error(MismatchMessage(head, validation)), validation)
             /\ call' = NoCall
        ELSE IF call.op = "validateResponse"
        THEN /\ ret' = done(FALSE, Undefined, validation)
             /\ call' = NoCall
        ELSE /\ ret' = NoRet
             /\ call' = [call EXCEPT !.pc = "unroute", !.validation = validation]
  /\ routed' = NoRouted
  /\ UNCHANGED <<env, observed, routes, interceptedRequest>>

\* Both validation methods from the return of getAPIParams on: translation
\* failure, comparison, mismatch error; on a match validateResponse returns
\* and validateInterceptedRequest goes on to stopInterception.
ValidateCompare ==
  /\ call.op \in {"validateInterceptedRequest", "validateResponse"}
  /\ call.pc = "getAPIParams"
  /\ LET actualParams == toSearchAPIParams(parseQueryParams(call.requestUrl))
         expectedAPIParams == getAPIParams(call.expectedParams)
         validation == compareParams(actualParams, expectedAPIParams.value)
         head == IF call.op = "validateResponse" THEN ResponseMismatchHead
                 ELSE InterceptedMismatchHead
         done(threw, error, v) == Outcome(call.op, call.self, call.before, call.expectedParams,
                                          call.requestUrl, call.response, threw, error, v)
     IN IF expectedAPIParams.threw
        THEN /\ ret' = done(TRUE, expectedAPIParams.error, Undefined)
             /\ call' = NoCall
        ELSE IF ~validation.matched
        THEN /\ ret' = done(TRUE, Error(MismatchMessage(head, validation)), validation)
             /\ call' = NoCall
        ELSE IF call.op = "validateResponse"
        THEN /\ ret' = done(FALSE, Undefined, validation)
             /\ call' = NoCall
        ELSE /\ ret' = NoRet
             /\ call' = [call EXCEPT !.pc = "unroute", !.validation = validation]
  /\ routed' = NoRouted
  /\ UNCHANGED <<env, observed, routes, interceptedRequest>>

\* stopInterception is called by the test
StopInterception(v) ==
  /\ call = NoCall
  /\ call' = [op |-> "stopInterception", self |-> v, pc |-> "unroute",
              before |-> SessionOf(v)]
  /\ ret' = NoRet
  /\ routed' = NoRouted
  /\ UNCHANGED <<env, observed, routes, interceptedRequest>>

\* variant: only the newest handler is removed
UnrouteNewest ==
  /\ call.op \in {"stopInterception", "validateInterceptedRequest"}
  /\ call.pc = "unroute"
  /\ routes' = IF routes = <<>> THEN <<>> ELSE Tail(routes)
  /\ call' = [call EXCEPT !.pc = "clear"]
  /\ ret' = NoRet
  /\ routed' = NoRouted
  /\ UNCHANGED <<env, observed, interceptedRequest>>

\* page.unroute removes every handler registered for the pattern
Unroute ==
  /\ call.op \in {"stopInterception", "validateInterceptedRequest"}
  /\ call.pc = "unroute"
  /\ routes' = <<>>
  /\ call' = [call EXCEPT !.pc = "clear"]
  /\ ret' = NoRet
  /\ routed' = NoRouted
  /\ UNCHANGED <<env, observed, interceptedRequest>>

\* variant: the stored request is kept
StopKeepsRequest ==
  /\ call.op \in {"stopInterception", "validateInterceptedRequest"}
  /\ call.pc = "clear"
  /\ ret' = IF call.op = "stopInterception"
            THEN [op |-> "stopInterception", self |-> call.self, threw |-> FALSE,
                  error |-> Undefined, before |-> call.before]
            ELSE Outcome(call.op, call.self, call.before, call.expectedParams, call.requestUrl,
                         call.response, FALSE, Undefined, call.validation)
  /\ call' = NoCall
  /\ routed' = NoRouted
  /\ UNCHANGED <<env, observed, routes, interceptedRequest>>

\* after the await of page.unroute: the slot is cleared and stopInterception
\* returns, and with it a validateInterceptedRequest that called it
StopClear ==
  /\ call.op \in {"stopInterception", "validateInterceptedRequest"}
  /\ call.pc = "clear"
  /\ interceptedRequest' = [interceptedRequest EXCEPT ![call.self] = Undefined]
  /\ ret' = IF call.op = "stopInterception"
            THEN [op |-> "stopInterception", self |-> call.self, threw |-> FALSE,
                  error |-> Undefined, before |-> call.before]
            ELSE Outcome(call.op, call.self, call.before, call.expectedParams, call.requestUrl,
                         call.response, FALSE, Undefined, call.validation)
  /\ call' = NoCall
  /\ routed' = NoRouted
  /\ observed' = [observed EXCEPT ![call.self] = NoObserved]
  /\ UNCHANGED <<env, routes>>

Next ==
  \/ \E url \in env.urls : Request(url)
  \/ \E v \in env.validators : StartInterception(v)
  \/ StartRoute
  \/ \E v \in env.validators, e \in env.expected : ValidateInterceptedRequest(v, e)
  \/ \E v \in env.validators, r \in env.responses, e \in env.expected : ValidateResponse(v, r, e)
  \/ ValidateCompare
  \/ \E v \in env.validators : StopInterception(v)
  \/ Unroute
  \/ StopClear
  \/ \E p \in env.params : BuildUrl(p)

Spec == Init /\ [][Next]_vars

\* ---------------------------------------------------------------- progress

\* the inputs of the behaviours checked for progress
InitProgress ==
  /\ env = [validators |-> Validators,
            urls |-> {SearchUrl(<<"7">>, <<"8", "8">>, adult_services), OtherUrl},
            expected |-> {[category |-> c, location |-> Label("London"), keyword |-> Undefined] :
                            c \in {Label("Escorts and Massages"), Label("Home Appliances"),
                                   Label("Nonexistent Category")}},
            responses |-> ResponsesFor({SearchUrl(<<"7">>, <<"8", "8">>, adult_services)}),
            params |-> {<<>>}, maxRoutes |-> MaxRoutes]
  /\ routes = <<>>
  /\ interceptedRequest = [v \in Validators |-> Undefined]
  /\ call = NoCall
  /\ ret = NoRet
  /\ routed = NoRouted
  /\ observed = [v \in Validators |-> NoObserved]

\* a validation call is at its await of getAPIParams
AtGetAPIParams ==
  /\ call.op \in {"validateInterceptedRequest", "validateResponse"}
  /\ call.pc = "getAPIParams"

\* page.route and page.unroute complete, and so do the continuations of the
\* awaits that need nothing from outside (getAPIParams, the end of
\* stopInterception).  ValidateCompare is enabled exactly when AtGetAPIParams
\* holds and is the only step that ends it, so its weak fairness is written
\* with that state predicate.
Progress ==
  /\ WF_vars(StartRoute)
  /\ []<>(~AtGetAPIParams)
  /\ WF_vars(Unroute)
  /\ WF_vars(StopClear)

SpecProgress == InitProgress /\ [][Next]_vars /\ Progress

\* ------------------------------------------------- validation, input by input

WideGeoTexts == {<<>>, <<"7">>, <<"0">>, <<"a", "b", "c">>}

WideCatTexts == {<<>>, <<"8", "8">>, <<"9", "3">>}

WideMetaTexts == {<<>>, adult_services, appliances_furniture}

WideTails == {<<<<"1">>, GB, GB>>, <<<<"0">>, <<"F", "R">>, <<>>>>}

WideUrls == {Url(SEARCH_API_URL, UiQuery(g, c, m, t[1], t[2], t[3])) :
               g \in WideGeoTexts, c \in WideCatTexts, m \in WideMetaTexts, t \in WideTails}

WideExpected == {[category |-> c, location |-> l, keyword |-> Undefined] :
                   c \in {Undefined, Label(""), Label("Escorts and Massages"),
                          Label("Home Appliances"), Label("Nonexistent Category")},
                   l \in {Undefined, Label(""), Label("London"), Label("Paris")}}

\* one validator; the page issues one URL and the test expects one parameter
\* set, each pair of them in some behaviour
InitValidation ==
  /\ \E u \in WideUrls, e \in WideExpected :
       env = [validators |-> {"v1"}, urls |-> {u}, expected |-> {e},
              responses |-> ResponsesFor({u}), params |-> {<<>>}, maxRoutes |-> 1]
  /\ routes = <<>>
  /\ interceptedRequest = [v \in Validators |-> Undefined]
  /\ call = NoCall
  /\ ret = NoRet
  /\ routed = NoRouted
  /\ observed = [v \in Validators |-> NoObserved]

SpecValidation == InitValidation /\ [][Next]_vars

\* ------------------------------------------------- comparison, pair by pair

\* a parameter set with its properties in the order toSearchAPIParams sets them
Params(geo, cat, meta, summary) ==
  LET prop(key, val) == IF val = Undefined THEN <<>> ELSE <<<<key, val>>>>
  IN prop("geo_id", geo) \o prop("cat_id", cat) \o prop("meta_code", meta)
     \o prop("summary", summary)

ActualParamSets == {Params(g, c, m, s) :
                      g \in {Undefined, Num(7), Num(15), NaN},
                      c \in {Undefined, Num(88), Num(93)},
                      m \in {Undefined, Str(adult_services), Str(appliances_furniture)},
                      s \in {Undefined, Num(1)}}

ExpectedParamSets == {Params(g, c, m, s) :
                        g \in {Undefined, Num(0), Num(7), Num(15)},
                        c \in {Undefined, Num(88)},
                        m \in {Undefined, Str(adult_services)},
                        s \in {Undefined, Num(0)}}

InitCompare ==
  /\ env = [validators |-> {}, urls |-> {}, expected |-> {}, responses |-> {},
            params |-> {}, maxRoutes |-> 0]
  /\ routes = <<>>
  /\ interceptedRequest = [v \in Validators |-> Undefined]
  /\ \E a \in ActualParamSets, e \in ExpectedParamSets :
       call = [op |-> "compareParams", actual |-> a, expected |-> e]
  /\ ret = NoRet
  /\ routed = NoRouted
  /\ observed = [v \in Validators |-> NoObserved]

\* the end of validateInterceptedRequest for a given pair of parameter sets:
\* the comparison and the error thrown on a mismatch
CompareAndReport ==
  /\ call.op = "compareParams"
  /\ LET validation == compareParams(call.actual, call.expected)
     IN ret' = [op |-> "compareParams", actual |-> call.actual, expected |-> call.expected,
                validation |-> validation,
                threw |-> ~validation.matched,
                error |-> IF ~validation.matched
                          THEN Error(MismatchMessage(InterceptedMismatchHead, validation))
                          ELSE Undefined]
  /\ call' = NoCall
  /\ UNCHANGED <<env, observed, routes, interceptedRequest, routed>>

NextCompare == CompareAndReport

SpecCompare == InitCompare /\ [][NextCompare]_vars

\* ------------------------------------------------------------------- claims

ComparedFields == <<"cat_id", "geo_id", "meta_code">>

\* the parameter set decoded from a URL
Decoded(url) == toSearchAPIParams(parseQueryParams(url))

\* every compared field the expected set defines has exactly that value in
\* the actual set
Agree(actual, expected) ==
  \A i \in 1..3 : Get(expected, ComparedFields[i]) # Undefined
                  => Get(actual, ComparedFields[i]) = Get(expected, ComparedFields[i])

\* the expected labels translate and the translated set agrees with the URL
ExpectedMatches(url, expectedParams) ==
  /\ ~mapToAPIParams(expectedParams).threw
  /\ Agree(Decoded(url), mapToAPIParams(expectedParams).value)

NoSession == [hooks |-> 0, captured |-> Undefined]

NoInterceptedRequestError == Error(NoInterceptedRequestMessage)

\* C1: interception lifecycle.  A validateInterceptedRequest that finds the
\* session idle fails with the no-intercepted-request error.  When
\* startInterception returns, the validator's hook is the newest one, and a
\* matching request is stored by the owner of the newest hook.  A
\* validateInterceptedRequest that finds a captured request matching the
\* expected parameters succeeds; a successful call leaves the session idle,
\* so the next call without a new startInterception finds it idle and fails
\* again.
C1_Lifecycle ==
  /\ ret.op = "startInterception" => (routes # <<>> /\ Head(routes) = ret.self)
  /\ (routed # NoRouted /\ Matches(routed.url) /\ routes # <<>>)
       => interceptedRequest[Head(routes)] = routed.url
  /\ ret.op = "validateInterceptedRequest" =>
       /\ ret.before = NoSession => (ret.threw /\ ret.error = NoInterceptedRequestError)
       /\ (ret.before.captured # Undefined
           /\ ExpectedMatches(ret.before.captured, ret.expectedParams)) => ~ret.threw
       /\ ~ret.threw => (ret.before.captured # Undefined /\ Idle(ret.self))

C1_Witness ==
  /\ ret.op = "validateInterceptedRequest"
  /\ ~ret.threw
  /\ ret.before.hooks = 1
  /\ ret.before.captured # Undefined
  /\ Idle(ret.self)

\* C2: whenever validateInterceptedRequest is called while a request is
\* captured, the session is idle when the call finishes, whatever the outcome
\* (success, parameter mismatch, mapping not found).
C2_IdleAfterValidation ==
  (ret.op = "validateInterceptedRequest" /\ ret.before.captured # Undefined)
    => Idle(ret.self)

\* C3: at most one route hook of a validator is registered for the search
\* endpoint pattern in every reachable state.
C3_AtMostOneHook == \A v \in Validators : HooksOf(v) <= 1

\* C4: when startInterception returns the session is armed: a hook is
\* registered and the captured-request slot is empty.
C4_ArmedAfterStart == ret.op = "startInterception" => Armed(ret.self)

\* C5: stopInterception raises no error and ends with no hook registered for
\* the pattern and the slot empty, from every state; called in the idle state
\* (as a second call in a row is) it leaves the session as it found it.
C5_StopEndsIdle ==
  ret.op = "stopInterception" =>
    /\ ~ret.threw
    /\ routes = <<>>
    /\ interceptedRequest[ret.self] = Undefined
    /\ ret.before = NoSession => SessionOf(ret.self) = ret.before

C5_Witness ==
  /\ ret.op = "stopInterception"
  /\ ret.before.hooks = 2
  /\ ret.before.captured # Undefined
  /\ Idle(ret.self)

\* C6: validateInterceptedRequest called when no request is captured (idle or
\* armed) fails with the no-intercepted-request error whatever the expected
\* parameters are, and never goes on to translate or compare.
C6_NoRequestCaptured ==
  /\ (ret.op = "validateInterceptedRequest" /\ ret.before.captured = Undefined)
       => (ret.threw /\ ret.error = NoInterceptedRequestError)
  /\ call.op = "validateInterceptedRequest" => call.before.captured # Undefined

C6_Witness ==
  /\ ret.op = "validateInterceptedRequest"
  /\ ret.before.captured = Undefined
  /\ ret.before.hooks > 0
  /\ ret.expectedParams.category = Label("Nonexistent Category")
  /\ ret.error = NoInterceptedRequestError

\* C7: every request that matches while a hook is registered is stored and
\* continued exactly once with its own URL, never aborted or fulfilled, also
\* when a request was captured before and when hooks are stacked.
C7_ContinuedOnce ==
  (routed # NoRouted /\ Matches(routed.url) /\ routes # <<>>) =>
    /\ routed.continued = <<routed.url>>
    /\ ~routed.aborted
    /\ ~routed.fulfilled
    /\ interceptedRequest[routed.handlers[1]] = routed.url

C7_Witness ==
  /\ routed # NoRouted
  /\ Matches(routed.url)
  /\ Len(routes) = 2
  /\ routed.previous[1] # Undefined
  /\ routed.previous[1] # routed.url
  /\ routed.continued = <<routed.url>>

\* C8: a validation call (either mode) that gets as far as the comparison
\* succeeds if and only if every field of cat_id, geo_id, meta_code that the
\* translated expected set defines has exactly that value in the set decoded
\* from the URL; with only a category expected, the outcome is the agreement
\* on cat_id and meta_code, whatever the actual geo_id, summary, country and
\* country_id are.
C8_SucceedsIffAgree ==
  (/\ ret.op \in {"validateInterceptedRequest", "validateResponse"}
   /\ ret.requestUrl # Undefined
   /\ ~mapToAPIParams(ret.expectedParams).threw) =>
    LET actual == Decoded(ret.requestUrl)
        expected == mapToAPIParams(ret.expectedParams).value
    IN /\ ~ret.threw <=> Agree(actual, expected)
       /\ ret.expectedParams.location = Undefined =>
            (~ret.threw <=> \/ Get(expected, "cat_id") = Undefined
                            \/ /\ Get(actual, "cat_id") = Get(expected, "cat_id")
                               /\ Get(actual, "meta_code") = Get(expected, "meta_code"))

C8_Witness ==
  /\ ret.op = "validateInterceptedRequest"
  /\ ~ret.threw
  /\ ret.expectedParams.category = Label("Escorts and Massages")
  /\ ret.expectedParams.location = Undefined
  /\ Get(Decoded(ret.requestUrl), "geo_id") = NaN
  /\ Get(Decoded(ret.requestUrl), "summary") = Num(0)

\* C9: on a mismatch the error carries one entry per constrained field whose
\* actual value differs, in the order cat_id, geo_id, meta_code, each of the
\* form "<field>: expected <expected>, got <actual>", e.g.
\* "geo_id: expected 15, got 7".
C9_DiffEntries ==
  ret.op = "compareParams" =>
    LET a == ret.actual
        e == ret.expected
        Differs(k) == Get(e, k) # Undefined /\ ~StrictEq(Get(a, k), Get(e, k))
        bad == SelectSeq(ComparedFields, Differs)
        entries == [i \in 1..Len(bad) |->
                      bad[i] \o ": expected " \o TemplateText(Get(e, bad[i]))
                             \o ", got " \o TemplateText(Get(a, bad[i]))]
    IN /\ ret.threw <=> bad # <<>>
       /\ bad # <<>> =>
            /\ ret.validation.differences = Array(entries)
            /\ ret.error = Error(InterceptedMismatchHead
                                 \o "  - " \o JoinWith(entries, "\n  - ") \o "\n\n"
                                 \o "Actual params: " \o JSONstringify(a) \o "\n"
                                 \o "Expected params: " \o JSONstringify(e))
       /\ (Get(a, "geo_id") = Num(7) /\ Get(e, "geo_id") = Num(15)
           /\ Get(e, "cat_id") = Undefined /\ Get(e, "meta_code") = Undefined)
            => ret.validation.differences = Array(<<"geo_id: expected 15, got 7">>)
       /\ (Get(a, "cat_id") = Num(93) /\ Get(e, "cat_id") = Num(88)
           /\ Get(a, "geo_id") = Undefined /\ Get(e, "geo_id") = Num(0)
           /\ Get(e, "meta_code") = Undefined)
            => ret.validation.differences =
                 Array(<<"cat_id: expected 88, got 93", "geo_id: expected 0, got undefined">>)

C9_Witness ==
  /\ ret.op = "compareParams"
  /\ Get(ret.actual, "geo_id") = Num(7)
  /\ Get(ret.expected, "geo_id") = Num(15)
  /\ ret.threw
  /\ ret.validation.differences = Array(<<"geo_id: expected 15, got 7">>)

\* C10: the result of compareParams has differences populated (a non-empty
\* sequence) if and only if matched is false; when matched is true,
\* differences is absent.
C10_DifferencesIffMismatch ==
  ret.op = "compareParams" =>
    LET d == ret.validation.differences
    IN /\ ret.validation.matched = FALSE <=> (d # Undefined /\ d.v # <<>>)
       /\ ret.validation.matched = TRUE => d = Undefined

C10_Witness ==
  /\ ret.op = "compareParams"
  /\ ret.validation.matched
  /\ ret.validation.differences = Undefined
  /\ Get(ret.expected, "geo_id") = Num(7)
  /\ Get(ret.expected, "cat_id") = Num(88)

\* C11: validateResponse checks the status first.  For a non-success status it
\* fails with the response-not-OK failure, which is not the parameter-mismatch
\* error, whatever the URL's parameters and the expected labels are; a
\* parameter-mismatch or mapping error is raised only for a success status.
C11_StatusFirst ==
  ret.op = "validateResponse" =>
    /\ ~ResponseOK(ret.response) =>
         /\ ret.threw
         /\ ret.error = Error(ResponseNotOKMessage)
         /\ ret.validation = Undefined
         /\ \A a \in {Decoded(ret.response.url)} :
              ~mapToAPIParams(ret.expectedParams).threw =>
                ret.error # Error(MismatchMessage(ResponseMismatchHead,
                                    compareParams(a, mapToAPIParams(ret.expectedParams).value)))
    /\ (ret.threw /\ ret.error # Error(ResponseNotOKMessage)) => ResponseOK(ret.response)
    /\ ret.validation # Undefined => ResponseOK(ret.response)

C11_Witness ==
  /\ ret.op = "validateResponse"
  /\ ret.response.status = 404
  /\ ret.expectedParams.category = Label("Nonexistent Category")
  /\ ret.expectedParams.location = Label("London")
  /\ Get(Decoded(ret.response.url), "geo_id") = Num(0)
  /\ ret.error = Error(ResponseNotOKMessage)

\* ------------------------------------------------------ the codec, set by set

\* marks a property the parameter set does not have
Absent == [t |-> "absent"]

\* a parameter set with the given properties, in this order
ParamsObject(geo, cat, meta, summary, country, country_id) ==
  LET prop(key, val) == IF val = Absent THEN <<>> ELSE <<<<key, val>>>>
  IN prop("geo_id", geo) \o prop("cat_id", cat) \o prop("meta_code", meta)
     \o prop("summary", summary) \o prop("country", country)
     \o prop("country_id", country_id)

CodecParamSets ==
  {ParamsObject(g, c, m, s, co, ci) :
     g \in {Absent, Num(0), Num(7), Num(-3)},
     c \in {Absent, Num(0), Num(88)},
     m \in {Absent, Str(adult_services), Str(<<"a", " ", "b", "&", "c">>), Str(<<>>)},
     s \in {Absent, Undefined, Num(0), Num(2)},
     co \in {Absent, Str(<<"F", "R">>), Str(<<>>)},
     ci \in {Absent, Str(<<"F", "R">>)}}

\* no pair for the key, or one pair with one of the texts
OptionalPair(key, texts) == {<<>>} \cup {<<<<key, text>>>> : text \in texts}

DecodeUrls ==
  {Url(SEARCH_API_URL, g \o c \o s \o o) :
     g \in OptionalPair("geo_id", {<<>>, <<"7">>, <<"0">>, <<"a", "b", "c">>,
                                   <<"1", "2", "p", "x">>, <<"-", "5">>}),
     c \in OptionalPair("cat_id", {<<"8", "8">>, <<"x">>}),
     s \in OptionalPair("summary", {<<"1">>, <<"y", "e", "s">>}),
     o \in OptionalPair("page", {<<"2">>})}

InitCodec ==
  /\ env = [validators |-> {}, urls |-> {}, expected |-> {}, responses |-> {},
            params |-> {}, maxRoutes |-> 0]
  /\ routes = <<>>
  /\ interceptedRequest = [v \in Validators |-> Undefined]
  /\ \/ \E p \in CodecParamSets : call = [op |-> "buildSearchAPIUrl", params |-> p]
     \/ \E u \in DecodeUrls : call = [op |-> "parseQueryParams", url |-> u]
  /\ ret = NoRet
  /\ routed = NoRouted
  /\ observed = [v \in Validators |-> NoObserved]

\* a parameter set is built into a URL and the URL is decoded again
BuildAndParse ==
  /\ call.op = "buildSearchAPIUrl"
  /\ LET url == buildSearchAPIUrl(call.params)
     IN ret' = [op |-> "buildSearchAPIUrl", params |-> call.params, url |-> url,
                text |-> UrlText(url),
                parsed |-> toSearchAPIParams(parseQueryParams(url))]
  /\ call' = NoCall
  /\ UNCHANGED <<env, observed, routes, interceptedRequest, routed>>

\* a URL is decoded into a parameter set
ParseUrl ==
  /\ call.op = "parseQueryParams"
  /\ ret' = [op |-> "parseQueryParams", url |-> call.url,
             parsed |-> toSearchAPIParams(parseQueryParams(call.url))]
  /\ call' = NoCall
  /\ UNCHANGED <<env, observed, routes, interceptedRequest, routed>>

NextCodec == BuildAndParse \/ ParseUrl

SpecCodec == InitCodec /\ [][NextCodec]_vars

RecognizedFields == {"geo_id", "cat_id", "meta_code", "summary", "country", "country_id"}

DefaultOf(key) == CASE key = "summary" -> Num(1)
                    [] key \in {"country", "country_id"} -> Str(<<"G", "B">>)
                    [] OTHER -> Undefined

\* p merged with the defaults, a field of p winning
MergedWithDefaults(p, key) == IF HasKey(p, key) THEN Get(p, key) ELSE DefaultOf(key)

RoundTrips(r) ==
  /\ \A key \in RecognizedFields : Get(r.parsed, key) = MergedWithDefaults(r.params, key)
  /\ \A i \in 1..Len(r.parsed) : r.parsed[i][1] \in RecognizedFields

NoEmptyString(p) == \A i \in 1..Len(p) : p[i][2] # Str(<<>>)

C13_EmptyParams ==
  (ret.op = "buildSearchAPIUrl" /\ ret.params = <<>>) =>
    /\ ret.text = "https://search.vivastreet.co.uk/ajax/regions_tree.php"
                  \o "?summary=1&country=GB&country_id=GB"
    /\ Len(ret.url.query) = 3

C13_Witness ==
  /\ ret.op = "buildSearchAPIUrl"
  /\ ret.params = <<>>
  /\ Len(ret.url.query) = 3

\* C14: the built URL carries exactly one value for each of summary, country
\* and country_id: the value of p when p defines the field, the default
\* otherwise, also when p holds the field with the value undefined.
C14_DefaultsFieldByField ==
  ret.op = "buildSearchAPIUrl" =>
    \A key \in {"summary", "country", "country_id"} :
      LET want == IF Get(ret.params, key) # Undefined THEN Get(ret.params, key)
                  ELSE DefaultOf(key)
          at == {i \in 1..Len(ret.url.query) : ret.url.query[i][1] = key}
      IN /\ Cardinality(at) = 1
         /\ \A i \in at : FormDecode(ret.url.query[i][2]) = ToChars(want)

\* ------------------------------------------------- the translation, by request

TranslateInputs ==
  {[category |-> c, location |-> l, keyword |-> k] :
     c \in {Undefined, Label(""), Label("Escorts and Massages"), Label("Home Appliances"),
            Label("Nonexistent Category"), Label("London"), Label("toString")},
     l \in {Undefined, Label(""), Label("London"), Label("Paris"),
            Label("Home Appliances"), Label("constructor")},
     k \in {Undefined, Label(""), Label("sofa")}}

InitTranslate ==
  /\ env = [validators |-> {}, urls |-> {}, expected |-> {}, responses |-> {},
            params |-> {}, maxRoutes |-> 0]
  /\ routes = <<>>
  /\ interceptedRequest = [v \in Validators |-> Undefined]
  /\ \E e \in TranslateInputs :
       \/ call = [op |-> "getAPIParams", params |-> e]
       \/ call = [op |-> "search", pc |-> "mapToAPIParams", params |-> e, issued |-> <<>>]
  /\ ret = NoRet
  /\ routed = NoRouted
  /\ observed = [v \in Validators |-> NoObserved]

\* SearchAPIHelper.getAPIParams(params) returns or throws
Translate ==
  /\ call.op = "getAPIParams"
  /\ ret' = [op |-> "getAPIParams", params |-> call.params,
             result |-> getAPIParams(call.params)]
  /\ call' = NoCall
  /\ UNCHANGED <<env, observed, routes, interceptedRequest, routed>>

\* the headers search sends with its GET
SearchHeaders ==
  <<<<"Referer", "https://www.vivastreet.co.uk/">>,
    <<"Accept", "application/json, text/javascript, */*; q=0.01">>,
    <<"X-Requested-With", "XMLHttpRequest">>>>

\* page.request.get(url, {headers})
Get_(url, headers) == [method |-> "GET", url |-> url, headers |-> headers]

\* variant: the request is sent for the labels that could be translated
\* before the translation reports a missing one
SearchRequestsFirst ==
  /\ call.op = "search"
  /\ call.pc = "mapToAPIParams"
  /\ LET apiParams == mapToAPIParams(call.params)
         partial == mapToAPIParams([call.params EXCEPT !.category = Undefined,
                                                       !.location = Undefined])
     IN IF apiParams.threw
        THEN /\ ret' = [op |-> "search", params |-> call.params, threw |-> TRUE,
                        error |-> apiParams.error, response |-> Undefined,
                        issued |-> <<Get_(buildSearchAPIUrl(partial.value), SearchHeaders)>>]
             /\ call' = NoCall
        ELSE /\ call' = [call EXCEPT !.pc = "get",
                           !.issued = <<Get_(buildSearchAPIUrl(apiParams.value), SearchHeaders)>>]
             /\ ret' = NoRet
  /\ UNCHANGED <<env, observed, routes, interceptedRequest, routed>>

\* search, up to the await of page.request.get: the labels are translated, the
\* URL is built and the GET is sent; a missing mapping ends the call before
Search ==
  /\ call.op = "search"
  /\ call.pc = "mapToAPIParams"
  /\ LET apiParams == mapToAPIParams(call.params)
     IN IF apiParams.threw
        THEN /\ ret' = [op |-> "search", params |-> call.params, threw |-> TRUE,
                        error |-> apiParams.error, response |-> Undefined,
                        issued |-> <<>>]
             /\ call' = NoCall
        ELSE /\ call' = [call EXCEPT !.pc = "get",
                           !.issued = <<Get_(buildSearchAPIUrl(apiParams.value), SearchHeaders)>>]
             /\ ret' = NoRet
  /\ UNCHANGED <<env, observed, routes, interceptedRequest, routed>>

\* the response arrives and search returns it as it is
SearchGet ==
  /\ call.op = "search"
  /\ call.pc = "get"
  /\ \E status \in Statuses :
       ret' = [op |-> "search", params |-> call.params, threw |-> FALSE,
               error |-> Undefined,
               response |-> [status |-> status, url |-> call.issued[1].url],
               issued |-> call.issued]
  /\ call' = NoCall
  /\ UNCHANGED <<env, observed, routes, interceptedRequest, routed>>

NextTranslate == Translate \/ Search \/ SearchGet

SpecTranslate == InitTranslate /\ [][NextTranslate]_vars

Keys(object) == {object[i][1] : i \in 1..Len(object)}

EscortsInLondon ==
  /\ ret.op = "getAPIParams"
  /\ ret.params = [category |-> Label("Escorts and Massages"), location |-> Label("London"),
                   keyword |-> Undefined]

\* C15 as claimed: {category: "Escorts and Massages", location: "London"}
\* translates to meta code "escorts_massages", geo id 7 and the category id of
\* the registry, and no other field.
C15_EscortsMassagesCode ==
  EscortsInLondon =>
    /\ ~ret.result.threw
    /\ Keys(ret.result.value) = {"cat_id", "meta_code", "geo_id"}
    /\ Get(ret.result.value, "meta_code")
         = Str(<<"e","s","c","o","r","t","s","_","m","a","s","s","a","g","e","s">>)
    /\ Get(ret.result.value, "geo_id") = Num(7)
    /\ Get(ret.result.value, "cat_id") = Num(CATEGORY_MAPPINGS["Escorts and Massages"].cat_id)

\* C15: {category: "Escorts and Massages", location: "London"} translates to
\* cat_id 88, meta_code "adult_services" and geo_id 7, and no other field.
C15_KnownMapping ==
  EscortsInLondon =>
    /\ ~ret.result.threw
    /\ Keys(ret.result.value) = {"cat_id", "meta_code", "geo_id"}
    /\ Get(ret.result.value, "meta_code")
         = Str(<<"a","d","u","l","t","_","s","e","r","v","i","c","e","s">>)
    /\ Get(ret.result.value, "geo_id") = Num(7)
    /\ Get(ret.result.value, "cat_id") = Num(88)

C15_Witness ==
  /\ EscortsInLondon
  /\ ~ret.result.threw
  /\ Len(ret.result.value) = 3

\* the labels a UI request holds, the empty string counting, that the
\* registry of their kind has no entry for
MissingLabels(params) ==
  {params[f].v : f \in {f \in {"category"} : /\ params[f] # Undefined
                                             /\ params[f].v \notin DOMAIN CATEGORY_MAPPINGS}}
  \cup
  {params[f].v : f \in {f \in {"location"} : /\ params[f] # Undefined
                                             /\ params[f].v \notin DOMAIN LOCATION_MAPPINGS}}

\* C16: a UI request holding a label (category or location, the empty string
\* counting) that its registry has no entry for fails with a mapping-not-found
\* error naming a missing label, and returns no parameter set.
C16_MissingLabelFails ==
  (ret.op = "getAPIParams" /\ MissingLabels(ret.params) # {}) =>
    /\ ret.result.threw
    /\ \E label \in MissingLabels(ret.params) :
         ret.result.error \in {Error(CategoryNotFoundMessage(label)),
                               Error(LocationNotFoundMessage(label))}

\* C17: a UI request whose location is the empty string translates without an
\* error to a parameter set with geo_id 0, while a request without a location
\* that translates yields a parameter set with no geo_id at all.
C17_EmptyLocation ==
  ret.op = "getAPIParams" =>
    /\ "" \in DOMAIN LOCATION_MAPPINGS /\ LOCATION_MAPPINGS[""].geo_id = 0
    /\ ret.params.location = Label("") =>
         \/ /\ ~ret.result.threw
            /\ HasKey(ret.result.value, "geo_id")
            /\ Get(ret.result.value, "geo_id") = Num(0)
         \/ /\ ret.result.threw
            /\ ret.params.category # Undefined
            /\ ret.result.error = Error(CategoryNotFoundMessage(ret.params.category.v))
    /\ (ret.params.location = Undefined /\ ~ret.result.threw) =>
         ~HasKey(ret.result.value, "geo_id")

C17_Witness ==
  /\ ret.op = "getAPIParams"
  /\ ret.params = [category |-> Undefined, location |-> Label(""), keyword |-> Undefined]
  /\ ret.result = [threw |-> FALSE, value |-> <<<<"geo_id", Num(0)>>>>]

IntegerFields == {"geo_id", "cat_id", "summary"}

\* an optional sign and then digits only
IsNumericText(cs) ==
  LET body == IF cs # <<>> /\ Head(cs) \in {"-", "+"} THEN Tail(cs) ELSE cs
  IN body # <<>> /\ \A i \in 1..Len(body) : IsDigit(body[i])

\* C18: decoding a URL leaves an integer field (geo_id, cat_id, summary) whose
\* query value is not numeric absent from the decoded set, and the decoded set
\* never holds anything but an integer for an integer field.
C18_NonNumericAbsent ==
  ret.op = "parseQueryParams" =>
    \A key \in IntegerFields :
      /\ \A i \in 1..Len(ret.url.query) :
           (ret.url.query[i][1] = key /\ ~IsNumericText(FormDecode(ret.url.query[i][2])))
             => ~HasKey(ret.parsed, key)
      /\ HasKey(ret.parsed, key) =>
           /\ Get(ret.parsed, key).t = "number"
           /\ Get(ret.parsed, key) # NaN

\* C19: the request a validateInterceptedRequest call inspects was never
\* issued between the beginning and the return of a startInterception call of
\* the same validator (nor before it): it was issued after the most recent
\* startInterception returned.
C19_CapturedAfterStartReturned ==
  [][(call.op = "none" /\ call'.op = "validateInterceptedRequest")
       => ~observed[call'.self].starting]_vars

\* C20: each matching request a session's handler sees overwrites the stored
\* request, whatever was stored before, and validateInterceptedRequest
\* inspects the URL of the last request the handler saw.
C20_LatestOverwrites ==
  [][/\ routed'.url # Undefined =>
          \A i \in 1..Len(routed'.handlers) :
            interceptedRequest'[routed'.handlers[i]] = routed'.url
     /\ (call.op = "none" /\ call'.op = "validateInterceptedRequest") =>
          /\ call'.requestUrl = observed[call'.self].url
          /\ call'.requestUrl = interceptedRequest[call'.self]
     /\ (call.op = "validateInterceptedRequest" /\ ret'.op = "validateInterceptedRequest") =>
          ret'.requestUrl = call.requestUrl]_vars

C20_Witness ==
  /\ routed # NoRouted
  /\ Len(routes) = 1
  /\ Len(routed.handlers) = 1
  /\ routed.previous[1] \in SearchUrls
  /\ routed.previous[1] # routed.url
  /\ interceptedRequest[routes[1]] = routed.url
  /\ observed[routes[1]] = [url |-> routed.url, starting |-> FALSE]

Keywords == {Undefined, Label(""), Label("sofa"), Label("bed")}

\* C21: the keyword of a UI request has no influence: with any other keyword,
\* or none, the translation gives the same parameter set or the same failure
\* and search sends its GET to the same URL.
C21_KeywordIgnored ==
  /\ ret.op = "getAPIParams" =>
       \A k \in Keywords : getAPIParams([ret.params EXCEPT !.keyword = k]) = ret.result
  /\ ret.op = "search" =>
       \A k \in Keywords :
         LET other == mapToAPIParams([ret.params EXCEPT !.keyword = k])
         IN /\ other.threw = ret.threw
            /\ other.threw => other.error = ret.error
            /\ ~other.threw =>
                 /\ Len(ret.issued) = 1
                 /\ ret.issued[1].url = buildSearchAPIUrl(other.value)
                 /\ \A i \in 1..Len(ret.issued[1].url.query) :
                      ret.issued[1].url.query[i][1] # "keyword"

C21_Witness ==
  /\ ret.op = "search"
  /\ ret.params = [category |-> Label("Home Appliances"), location |-> Label("London"),
                   keyword |-> Label("sofa")]
  /\ UrlText(ret.issued[1].url)
       = SEARCH_API_URL \o "?summary=1&country=GB&country_id=GB"
         \o "&cat_id=93&meta_code=appliances_furniture&geo_id=7"

\* C22: the translation adds no defaults: cat_id and meta_code are defined
\* only for a request with a category, geo_id only for a request with a
\* location, summary, country and country_id never, and the empty request
\* translates to the empty parameter set.
C22_NoDefaults ==
  (ret.op = "getAPIParams" /\ ~ret.result.threw) =>
    /\ Keys(ret.result.value) \subseteq {"cat_id", "meta_code", "geo_id"}
    /\ ret.params.category = Undefined =>
         Keys(ret.result.value) \cap {"cat_id", "meta_code"} = {}
    /\ ret.params.location = Undefined => "geo_id" \notin Keys(ret.result.value)
    /\ (ret.params.category = Undefined /\ ret.params.location = Undefined) =>
         ret.result.value = <<>>

C22_Witness ==
  /\ ret.op = "getAPIParams"
  /\ ret.params = [category |-> Undefined, location |-> Undefined, keyword |-> Undefined]
  /\ ret.result = [threw |-> FALSE, value |-> <<>>]

\* C24: search sends exactly one GET, to the URL built from the translated
\* request, and returns the response whatever its status; when the
\* translation fails, search fails with that error and sends nothing.
C24_SearchOneGet ==
  /\ (call.op = "search" /\ call.pc = "get") => Len(call.issued) = 1
  /\ ret.op = "search" =>
       LET apiParams == mapToAPIParams(ret.params)
       IN IF apiParams.threw
          THEN /\ ret.threw
               /\ ret.error = apiParams.error
               /\ ret.issued = <<>>
               /\ ret.response = Undefined
          ELSE /\ ~ret.threw
               /\ ret.issued = <<Get_(buildSearchAPIUrl(apiParams.value), SearchHeaders)>>
               /\ ret.response.url = buildSearchAPIUrl(apiParams.value)
               /\ ret.response.status \in Statuses

C24_Witness ==
  /\ ret.op = "search"
  /\ ~ret.threw
  /\ ret.response.status = 404
  /\ ret.params.category = Label("Escorts and Massages")
  /\ ret.params.location = Undefined
  /\ Len(ret.issued) = 1

C24_WitnessNoRequest ==
  /\ ret.op = "search"
  /\ ret.threw
  /\ ret.params.category = Label("Escorts and Massages")
  /\ ret.params.location = Label("Paris")
  /\ ret.issued = <<>>

DefaultKeys == <<"summary", "country", "country_id">>

RECURSIVE OwnKeys(_)
\* the keys of p that are no default keys, in the order p holds them
OwnKeys(p) == IF p = <<>> THEN <<>>
              ELSE (IF Head(p)[1] \in {"summary", "country", "country_id"} THEN <<>>
                    ELSE <<Head(p)[1]>>)
                   \o OwnKeys(Tail(p))

RECURSIVE QueryInOrder(_, _)
\* key=value of each key in turn, skipping the keys without a value
QueryInOrder(keys, p) ==
  IF keys = <<>> THEN ""
  ELSE LET value == MergedWithDefaults(p, Head(keys))
           rest == QueryInOrder(Tail(keys), p)
       IN IF value = Undefined THEN rest
          ELSE Head(keys) \o "=" \o Join(FormEncode(ToChars(value)))
               \o (IF rest = "" THEN "" ELSE "&" \o rest)

\* C23: buildSearchAPIUrl is a function of its parameter set alone: whatever
\* was called before and whatever the interception state, the query string
\* lists summary, country and country_id first and then the other fields of
\* the set in the order the set holds them.
C23_Deterministic ==
  ret.op = "buildSearchAPIUrl" =>
    ret.text = SEARCH_API_URL \o "?" \o QueryInOrder(DefaultKeys \o OwnKeys(ret.params),
                                                     ret.params)

C23_Witness ==
  /\ ret.op = "buildSearchAPIUrl"
  /\ Len(routes) = 2
  /\ interceptedRequest["v1"] \in SearchUrls
  /\ ret.text = SEARCH_API_URL \o "?summary=0&country=GB&country_id=GB&cat_id=88&geo_id=7"

InterceptionCalls == {"startInterception", "validateInterceptedRequest", "stopInterception"}

\* C25: every call of startInterception, validateInterceptedRequest and
\* stopInterception in progress eventually finishes, and a
\* validateInterceptedRequest in progress always has the request it inspects:
\* with an empty slot the call ends at once, it never waits for a request.
C25_CallsFinish ==
  /\ (call.op \in InterceptionCalls) ~> (call = NoCall)
  /\ [](call.op = "validateInterceptedRequest" => call.requestUrl # Undefined)

C25_Witness ==
  /\ ret.op = "validateInterceptedRequest"
  /\ ~ret.threw
  /\ ret.before.hooks = 2
  /\ call = NoCall

\* C26: two validators on one page have independent sessions: a
\* stopInterception or a successful validateInterceptedRequest of one leaves
\* the hooks of the other registered.
C26_IndependentSessions ==
  [][\A v \in Validators, w \in Validators :
       (v # w /\ call.op \in {"stopInterception", "validateInterceptedRequest"}
              /\ call.self = v)
         => Len(SelectSeq(routes', LAMBDA r : r = w)) = Len(SelectSeq(routes, LAMBDA r : r = w))]_vars

\* C27: a validateInterceptedRequest that fails with the no-intercepted-request
\* error changes nothing: the hooks stay registered, the slot stays empty and
\* no call is left in progress, so the session goes on as if the call had not
\* been made.
C27_NoRequestErrorKeepsSession ==
  [][(ret'.op = "validateInterceptedRequest" /\ ret'.error = NoInterceptedRequestError) =>
       /\ routes' = routes
       /\ interceptedRequest' = interceptedRequest
       /\ observed' = observed
       /\ call = NoCall /\ call' = NoCall
       /\ ret'.before = [hooks |-> Len(SelectSeq(routes', LAMBDA r : r = ret'.self)),
                         captured |-> Undefined]]_vars

C27_Witness ==
  /\ ret.op = "validateInterceptedRequest"
  /\ ret.error = NoInterceptedRequestError
  /\ ret.expectedParams.category = Label("Escorts and Massages")
  /\ ret.before = [hooks |-> 1, captured |-> Undefined]
  /\ Armed(ret.self)
  /\ routes = <<ret.self>>

\* C28: once stopInterception has returned the session is idle, also when a
\* request arrived during the call, and whenever no operation is in progress
\* a validator whose slot holds a request has a hook registered.
C28_CapturedImpliesHook ==
  /\ ret.op = "stopInterception" => Idle(ret.self)
  /\ call = NoCall =>
       \A v \in Validators : interceptedRequest[v] # Undefined => HooksOf(v) >= 1

C30_ResponseModeKeepsSession ==
  [][((call.op = "none" /\ call'.op = "validateResponse") \/ ret'.op = "validateResponse") =>
       /\ routes' = routes
       /\ interceptedRequest' = interceptedRequest
       /\ observed' = observed
       /\ ret'.op = "validateResponse" =>
            ret'.requestUrl \in {Undefined, ret'.response.url}]_vars

C30_Witness ==
  /\ ret.op = "validateResponse"
  /\ ~ret.threw
  /\ Captured(ret.self)
  /\ interceptedRequest[ret.self] # ret.response.url
  /\ ret.before.captured = interceptedRequest[ret.self]

====
